---- MODULE Spec2Model ----
(***************************************************************************)
(* A model of the NUTTERX VCF API (src/server.js, lines 1-343: the variant *)
(* with the VIP media routes).  The document store is the shared state;    *)
(* every HTTP handler is a sequence of steps, one per awaited store        *)
(* operation, and handlers of different requests interleave between their  *)
(* steps.  The synchronous code before a handler's first store operation   *)
(* reads no shared state and is part of that operation's step, except      *)
(* where it reads the clock (new Date()): there the handler has a step of  *)
(* its own that fixes created_at before the insert takes effect.           *)
(* Text (phone numbers, names, keys, the vCard file) is a sequence of      *)
(* one-character strings.  find({}) returns a collection in insertion      *)
(* order; sort({created_at}) returns documents of equal created_at in any  *)
(* order.                                                                  *)
(***************************************************************************)
EXTENDS Integers, Sequences, FiniteSets, TLC

VARIABLES
    contacts,    \* collection "contacts", in the store's natural (insertion) order
    broadcasts,  \* collection "broadcasts", in natural order
    vipMedia,    \* collection "vip_photos", in natural order
    nextId,      \* the next fresh ObjectId
    clock,       \* the wall clock new Date() reads, in milliseconds
    req,         \* req[r]: the request handler running in slot r
    rawOf        \* history: rawOf[id] is the raw phone input that last set contact id's phone_number

vars == <<contacts, broadcasts, vipMedia, nextId, clock, req, rawOf>>

(***************************** bounds ***************************************)
MaxReqs == 2
MaxIds == 3
MaxClock == 2
MaxBroadcasts == 2

Reqs == 1..MaxReqs

(************************** text and inputs *********************************)
Digit == {"0", "1", "2", "3", "4", "5", "6", "7", "8", "9"}

\* A JSON field or header that is not there.
Undefined == <<"undefined">>

\* JavaScript's !x for a value that is a string or undefined.
Falsy(x) == x = Undefined \/ x = <<>>

Amy == <<"A","m","y">>
Bob == <<"B","o","b">>
Names == {Undefined, Amy}
NewNames == {Undefined, Bob}

PhoneFormatted == <<"+","2","5","4"," ","(","7","1","2",")"," ","0","0","0","-","1","1","1">>
PhoneDigits == <<"2","5","4","7","1","2","0","0","0","1","1","1">>
PhoneLocal == <<"0","7","1","2","3","4","5","6","7","8">>
PhoneBlockedFormatted == <<"2","5","4","-","7","1","3","-","3","8","0","-","8","4","8">>
PhoneBlockedSpaced == <<"+","2","5","4"," ","7","1","2"," ","3","4","5"," ","6","7","8">>
PhoneShort == <<"1","2","3","4","5">>
PhoneLong == <<"1","2","3","4","5","6","7","8","9","0","1","2","3","4","5","6">>
RawPhones == {Undefined, PhoneFormatted, PhoneLocal, PhoneBlockedFormatted, PhoneShort,
              PhoneLong}
NewPhones == {Undefined, PhoneLocal, PhoneBlockedFormatted, PhoneShort}
OldPhones == {Undefined, PhoneDigits, PhoneLocal}

ADMIN_KEY == <<"k","e","y">>
WrongKey == <<"k","e","Y">>
Keys == {Undefined, <<>>, WrongKey, ADMIN_KEY}

\* A route parameter that is no valid ObjectId string: new ObjectId(id) throws.
BadId == 0
Ids == {BadId} \cup (1..MaxIds)

SUPPORT_LINK == "https://whatsapp.com/channel/0029Vb6b864Id7nIEgOrMe24"

MinDigits == 10
MaxDigits == 15

(************************ phone normalizer **********************************)
RECURSIVE replaceFirstNonDigit(_)
replaceFirstNonDigit(s) ==
    IF s = <<>> THEN <<>>
    ELSE IF Head(s) \in Digit THEN <<Head(s)>> \o replaceFirstNonDigit(Tail(s))
    ELSE Tail(s)

\* phone_number.replace(/\D/g, "")
RECURSIVE replaceNonDigits(_)
replaceNonDigits(s) ==
    IF s = <<>> THEN <<>>
    ELSE IF Head(s) \in Digit THEN <<Head(s)>> \o replaceNonDigits(Tail(s))
    ELSE replaceNonDigits(Tail(s))

\* cleanedPhone.length < 10 || cleanedPhone.length > 15
invalidLength(cleanedPhone) ==
    Len(cleanedPhone) < MinDigits \/ Len(cleanedPhone) > MaxDigits

blockedNumbersFirstOnly == { <<"2","5","4","7","1","3","3","8","0","8","4","8">> }

\* const blockedNumbers = ["254713380848", "254712345678"]
blockedNumbers ==
    { <<"2","5","4","7","1","3","3","8","0","8","4","8">>,
      <<"2","5","4","7","1","2","3","4","5","6","7","8">> }

(**************************** the store *************************************)
Indexes(coll) == 1..Len(coll)

noUniqueIndex(coll, phone, self) == FALSE

\* The unique index on phone_number: a write that would leave a second document
\* with this phone_number (other than document `self`) is rejected with code 11000.
duplicateKey(coll, phone, self) ==
    \E i \in Indexes(coll) : coll[i].phone_number = phone /\ coll[i]._id # self

\* The position of the first document matching the filter {field: value}, 0 when
\* none matches.
firstIndex(coll, field, value) ==
    IF \E i \in Indexes(coll) : coll[i][field] = value
    THEN CHOOSE i \in Indexes(coll) :
             coll[i][field] = value /\ \A j \in 1..(i - 1) : coll[j][field] # value
    ELSE 0

\* findOne({field: value}): the first matching document, or null (the empty sequence).
findOne(coll, field, value) ==
    LET i == firstIndex(coll, field, value) IN IF i = 0 THEN <<>> ELSE <<coll[i]>>

\* deleteOne: the collection without the document at position i.
removeAt(coll, i) == SubSeq(coll, 1, i - 1) \o SubSeq(coll, i + 1, Len(coll))

\* The orders find().sort({created_at: dir}) can return: any order of the whole
\* collection that is monotone in created_at (documents with equal created_at come
\* in any order).
sortedBy(coll, dir) ==
    { s \in [Indexes(coll) -> Indexes(coll)] :
        /\ \A i, j \in Indexes(coll) : i # j => s[i] # s[j]
        /\ \A i, j \in Indexes(coll) :
              i < j => dir * coll[s[i]].created_at <= dir * coll[s[j]].created_at }

permute(coll, s) == [i \in Indexes(coll) |-> coll[s[i]]]

(*************************** request slots **********************************)
Idle ==
    [ route |-> "idle", pc |-> "idle",
      key |-> Undefined, id |-> BadId, name |-> Undefined, phone_number |-> Undefined,
      old_phone_number |-> Undefined, message |-> Undefined,
      mimetype |-> Undefined, type |-> Undefined, caption |-> Undefined,
      created_at |-> 0, matched |-> 0,
      status |-> 0, error |-> "", found |-> <<>>, text |-> <<>>, ops |-> 0 ]

\* res.status(code).json({error})
fail(q, code, error) == [q EXCEPT !.pc = "done", !.status = code, !.error = error]

\* res.status(code).json({..., docs}) / res.send(text)
reply(q, code, docs) == [q EXCEPT !.pc = "done", !.status = code, !.found = docs]

\* One more store operation issued by the handler.
op(q) == [q EXCEPT !.ops = @ + 1]

setReq(r, q) == req' = [req EXCEPT ![r] = q]

\* A new request takes the first free slot (which slot is of no consequence).
free(r) == req[r].pc = "idle" /\ \A s \in 1..(r - 1) : req[s].pc # "idle"

Init ==
    /\ contacts = <<>>
    /\ broadcasts = <<>>
    /\ vipMedia = <<>>
    /\ nextId = 1
    /\ clock = 1
    /\ req = [r \in Reqs |-> Idle]
    /\ rawOf = [i \in {} |-> Undefined]

\* Time passes.
Tick ==
    /\ clock < MaxClock
    /\ clock' = clock + 1
    /\ UNCHANGED <<contacts, broadcasts, vipMedia, nextId, req, rawOf>>

\* The response has been delivered; the slot is free for the next request.
Close(r) ==
    /\ req[r].pc = "done"
    /\ setReq(r, Idle)
    /\ UNCHANGED <<contacts, broadcasts, vipMedia, nextId, clock, rawOf>>

(**************************** admin gate ************************************)
rejectsEmptyOnly(key) == Falsy(key)

\* adminAuth: !key || key !== ADMIN_KEY
unauthorized(key) == Falsy(key) \/ key # ADMIN_KEY

(************************ POST /api/contacts ********************************)
\* Lines 130-145: validation, then newContact with created_at = new Date().
RegisterBegin(r, name, phone_number) ==
    /\ free(r)
    /\ LET q == [Idle EXCEPT !.route = "register", !.name = name,
                              !.phone_number = phone_number]
       IN  IF Falsy(name) \/ Falsy(phone_number)
           THEN setReq(r, fail(q, 400, "Name and phone number are required"))
           ELSE IF invalidLength(replaceNonDigits(phone_number))
           THEN setReq(r, fail(q, 400, "Invalid phone number (10-15 digits)"))
           ELSE IF replaceNonDigits(phone_number) \in blockedNumbers
           THEN setReq(r, fail(q, 403, "This number is restricted from registering."))
           ELSE setReq(r, [q EXCEPT !.pc = "insert", !.created_at = clock])
    /\ UNCHANGED <<contacts, broadcasts, vipMedia, nextId, clock, rawOf>>

newContactRawPhone(q, id) ==
    [ _id |-> id, name |-> q.name, phone_number |-> q.phone_number,
      link |-> SUPPORT_LINK, created_at |-> q.created_at ]

\* const newContact = { name, phone_number: cleanedPhone, link: SUPPORT_LINK,
\* created_at: new Date() }, with the _id insertOne gives it.
newContact(q, id) ==
    [ _id |-> id, name |-> q.name, phone_number |-> replaceNonDigits(q.phone_number),
      link |-> SUPPORT_LINK, created_at |-> q.created_at ]

\* Lines 147-152: insertOne at the store, then 201, or 409 on error code 11000.
RegisterInsert(r) ==
    /\ req[r].route = "register" /\ req[r].pc = "insert"
    /\ LET q == op(req[r])
           doc == newContact(q, nextId)
       IN  IF duplicateKey(contacts, doc.phone_number, nextId)
           THEN /\ setReq(r, fail(q, 409, "Phone number already registered"))
                /\ UNCHANGED <<contacts, nextId, rawOf>>
           ELSE /\ nextId <= MaxIds
                /\ contacts' = Append(contacts, doc)
                /\ nextId' = nextId + 1
                /\ rawOf' = (nextId :> q.phone_number) @@ rawOf
                /\ setReq(r, reply(q, 201, <<doc>>))
    /\ UNCHANGED <<broadcasts, vipMedia, clock>>

(********************* PUT /api/contacts, PUT /api/admin/contacts/:id *******)
\* update.phone_number, when the request sets it.
setsPhone(q) == ~Falsy(q.phone_number)
setsName(q) == ~Falsy(q.name)

applyUpdateAlwaysPhone(c, q) ==
    [c EXCEPT !.name = IF setsName(q) THEN q.name ELSE @,
              !.phone_number = replaceNonDigits(q.phone_number)]

\* {$set: update} applied to document c.
applyUpdate(c, q) ==
    [c EXCEPT !.name = IF setsName(q) THEN q.name ELSE @,
              !.phone_number = IF setsPhone(q) THEN replaceNonDigits(q.phone_number) ELSE @]

\* updateOne({field: value}, {$set: update}) at the store, and the handler's reaction to
\* its result: 404 when nothing matched, 409 on error code 11000, otherwise the
\* handler goes on to read the document back.
updateOne(r, q0, field, value) ==
    LET q == op(q0)
        i == firstIndex(contacts, field, value)
    IN  IF i = 0
        THEN /\ setReq(r, fail(q, 404, "Contact not found"))
             /\ UNCHANGED <<contacts, rawOf>>
        ELSE IF setsPhone(q)
                /\ duplicateKey(contacts, replaceNonDigits(q.phone_number), contacts[i]._id)
        THEN /\ setReq(r, fail(q, 409, "Phone number already registered"))
             /\ UNCHANGED <<contacts, rawOf>>
        ELSE /\ contacts' = [contacts EXCEPT ![i] = applyUpdate(@, q)]
             /\ rawOf' = IF setsPhone(q)
                         THEN [rawOf EXCEPT ![contacts[i]._id] = q.phone_number]
                         ELSE rawOf
             /\ setReq(r, [q EXCEPT !.pc = "find", !.matched = contacts[i]._id])

\* Lines 159-173: validation, then updateOne({phone_number: old_phone_number}).
\* The slot's name and phone_number hold new_name and new_phone_number.
SelfUpdate(r, old_phone_number, new_name, new_phone_number) ==
    /\ free(r)
    /\ LET q == [Idle EXCEPT !.route = "selfUpdate", !.old_phone_number = old_phone_number,
                              !.name = new_name, !.phone_number = new_phone_number]
       IN  IF Falsy(old_phone_number) \/ (Falsy(new_name) /\ Falsy(new_phone_number))
           THEN /\ setReq(r, fail(q, 400, "Required data missing"))
                /\ UNCHANGED <<contacts, rawOf>>
           ELSE IF setsPhone(q) /\ invalidLength(replaceNonDigits(new_phone_number))
           THEN /\ setReq(r, fail(q, 400, "Invalid phone number"))
                /\ UNCHANGED <<contacts, rawOf>>
           ELSE updateOne(r, q, "phone_number", old_phone_number)
    /\ UNCHANGED <<broadcasts, vipMedia, nextId, clock>>

\* Lines 175-176: findOne({phone_number: update.phone_number || old_phone_number}).
SelfUpdateFind(r) ==
    /\ req[r].route = "selfUpdate" /\ req[r].pc = "find"
    /\ LET q == op(req[r])
           wanted == IF setsPhone(q) THEN replaceNonDigits(q.phone_number)
                     ELSE q.old_phone_number
       IN  setReq(r, reply(q, 200, findOne(contacts, "phone_number", wanted)))
    /\ UNCHANGED <<contacts, broadcasts, vipMedia, nextId, clock, rawOf>>

\* Lines 225-241: adminAuth, validation, then updateOne({_id: new ObjectId(id)}).
AdminUpdate(r, key, id, name, phone_number) ==
    /\ free(r)
    /\ LET q == [Idle EXCEPT !.route = "adminUpdate", !.key = key, !.id = id,
                              !.name = name, !.phone_number = phone_number]
       IN  IF unauthorized(key)
           THEN /\ setReq(r, fail(q, 401, "Unauthorized"))
                /\ UNCHANGED <<contacts, rawOf>>
           ELSE IF Falsy(name) /\ Falsy(phone_number)
           THEN /\ setReq(r, fail(q, 400, "Nothing to update"))
                /\ UNCHANGED <<contacts, rawOf>>
           ELSE IF setsPhone(q) /\ invalidLength(replaceNonDigits(phone_number))
           THEN /\ setReq(r, fail(q, 400, "Invalid phone number"))
                /\ UNCHANGED <<contacts, rawOf>>
           ELSE IF id = BadId
           THEN /\ setReq(r, fail(q, 500, "Failed to update contact"))
                /\ UNCHANGED <<contacts, rawOf>>
           ELSE updateOne(r, q, "_id", id)
    /\ UNCHANGED <<broadcasts, vipMedia, nextId, clock>>

\* Lines 243-244: findOne({_id: new ObjectId(id)}).
AdminUpdateFind(r) ==
    /\ req[r].route = "adminUpdate" /\ req[r].pc = "find"
    /\ LET q == op(req[r])
       IN  setReq(r, reply(q, 200, findOne(contacts, "_id", q.id)))
    /\ UNCHANGED <<contacts, broadcasts, vipMedia, nextId, clock, rawOf>>

(******************** DELETE /api/admin/contacts/:id ************************)
AdminDelete(r, key, id) ==
    /\ free(r)
    /\ LET q == [Idle EXCEPT !.route = "adminDelete", !.key = key, !.id = id]
           i == firstIndex(contacts, "_id", id)
       IN  IF unauthorized(key)
           THEN /\ setReq(r, fail(q, 401, "Unauthorized"))
                /\ UNCHANGED <<contacts, rawOf>>
           ELSE IF id = BadId
           THEN /\ setReq(r, fail(q, 500, "Failed to delete contact"))
                /\ UNCHANGED <<contacts, rawOf>>
           ELSE IF i = 0
           THEN /\ setReq(r, fail(op(q), 404, "Contact not found"))
                /\ UNCHANGED <<contacts, rawOf>>
           ELSE /\ contacts' = removeAt(contacts, i)
                /\ rawOf' = [j \in DOMAIN rawOf \ {id} |-> rawOf[j]]
                /\ setReq(r, reply(op(q), 200, <<>>))
    /\ UNCHANGED <<broadcasts, vipMedia, nextId, clock>>

(************************ GET /api/admin/contacts ***************************)
AdminList(r, key) ==
    /\ free(r)
    /\ LET q == [Idle EXCEPT !.route = "adminList", !.key = key]
       IN  IF unauthorized(key)
           THEN setReq(r, fail(q, 401, "Unauthorized"))
           ELSE \E s \in sortedBy(contacts, 1) :
                    setReq(r, reply(op(q), 200, permute(contacts, s)))
    /\ UNCHANGED <<contacts, broadcasts, vipMedia, nextId, clock, rawOf>>

(*********************** GET /api/contacts/download *************************)
\* The skull emoji appended to the name, one character.
Suffix == <<"SKULL">>

\* The text one pass of the forEach body appends for a contact.
vcard(contact) ==
    LET displayName == contact.name \o Suffix
    IN  <<"B","E","G","I","N",":","V","C","A","R","D","\n">>
        \o <<"V","E","R","S","I","O","N",":","3",".","0","\n">>
        \o <<"F","N",":">> \o displayName \o <<"\n">>
        \o <<"N",":">> \o displayName \o <<";",";",";",";","\n">>
        \o <<"T","E","L",";","T","Y","P","E","=","C","E","L","L",":">>
        \o contact.phone_number \o <<"\n">>
        \o <<"E","N","D",":","V","C","A","R","D","\n","\n">>

\* contacts.forEach(...): vcfContent after the first n contacts.
RECURSIVE vcfContent(_, _)
vcfContent(list, n) ==
    IF n = 0 THEN <<>> ELSE vcfContent(list, n - 1) \o vcard(list[n])

RECURSIVE findAllNewestFirst(_)
findAllNewestFirst(coll) ==
    IF coll = <<>> THEN <<>> ELSE findAllNewestFirst(Tail(coll)) \o <<Head(coll)>>

\* find({}).toArray(): the whole collection in natural order.
findAll(coll) == coll

Download(r) ==
    /\ free(r)
    /\ LET q == op([Idle EXCEPT !.route = "download"])
           list == findAll(contacts)
       IN  IF Len(list) = 0
           THEN setReq(r, fail(q, 404, "No contacts available"))
           ELSE setReq(r, [reply(q, 200, list) EXCEPT !.text = vcfContent(list, Len(list))])
    /\ UNCHANGED <<contacts, broadcasts, vipMedia, nextId, clock, rawOf>>

(************************ POST /api/admin/broadcast **************************)
Hi == <<"h","i">>
Yo == <<"y","o">>
Messages == {Undefined, Hi, Yo}

\* Lines 201-206: adminAuth, validation, then post with created_at = new Date().
PostBegin(r, key, message) ==
    /\ free(r)
    /\ LET q == [Idle EXCEPT !.route = "broadcast", !.key = key, !.message = message]
       IN  IF unauthorized(key)
           THEN setReq(r, fail(q, 401, "Unauthorized"))
           ELSE IF Falsy(message)
           THEN setReq(r, fail(q, 400, "Message required"))
           ELSE setReq(r, [q EXCEPT !.pc = "insert", !.created_at = clock])
    /\ UNCHANGED <<contacts, broadcasts, vipMedia, nextId, clock, rawOf>>

\* Lines 207-208: insertOne at the store, then the response.
PostInsert(r) ==
    /\ req[r].route = "broadcast" /\ req[r].pc = "insert"
    /\ Len(broadcasts) < MaxBroadcasts
    /\ LET q == op(req[r])
           post == [_id |-> nextId, message |-> q.message, created_at |-> q.created_at]
       IN  /\ broadcasts' = Append(broadcasts, post)
           /\ nextId' = nextId + 1
           /\ setReq(r, reply(q, 200, <<post>>))
    /\ UNCHANGED <<contacts, vipMedia, clock, rawOf>>

(************************ GET /api/broadcast/latest *************************)
\* find({}).sort({created_at: -1}).limit(1).toArray()
newestFirstLimit1(coll, s) == IF Len(coll) = 0 THEN <<>> ELSE <<coll[s[1]]>>

\* res.json({message: post[0] || null})
Latest(r) ==
    /\ free(r)
    /\ LET q == op([Idle EXCEPT !.route = "latest"])
       IN  \E s \in sortedBy(broadcasts, -1) :
               setReq(r, reply(q, 200, newestFirstLimit1(broadcasts, s)))
    /\ UNCHANGED <<contacts, broadcasts, vipMedia, nextId, clock, rawOf>>

(********************** POST /api/admin/vip/send-media **********************)
\* The module-level bindings (let db, contactsCollection, broadcastCollection,
\* vipMediaCollection).  Reading any other identifier throws a ReferenceError.
declared == {"db", "contactsCollection", "broadcastCollection", "vipMediaCollection"}

allowedTypes ==
    [ photo |-> {"image/jpeg", "image/png", "image/webp"},
      video |-> {"video/mp4", "video/webm"},
      audio |-> {"audio/mpeg", "audio/mp3", "audio/ogg"} ]

\* allowedTypes[type]?.includes(mimetype)
allowed(type, mimetype) == type \in DOMAIN allowedTypes /\ mimetype \in allowedTypes[type]

Base64Alphabet ==
    <<"A","B","C","D","E","F","G","H","I","J","K","L","M","N","O","P",
      "Q","R","S","T","U","V","W","X","Y","Z","a","b","c","d","e","f",
      "g","h","i","j","k","l","m","n","o","p","q","r","s","t","u","v",
      "w","x","y","z","0","1","2","3","4","5","6","7","8","9","+","/">>

sextet(n) == Base64Alphabet[n + 1]

\* buffer.toString("base64"): three bytes give four characters, "=" pads the end.
RECURSIVE base64(_)
base64(bytes) ==
    IF Len(bytes) = 0 THEN <<>>
    ELSE IF Len(bytes) = 1
    THEN <<sextet(bytes[1] \div 4), sextet((bytes[1] % 4) * 16), "=", "=">>
    ELSE IF Len(bytes) = 2
    THEN <<sextet(bytes[1] \div 4), sextet((bytes[1] % 4) * 16 + bytes[2] \div 16),
           sextet((bytes[2] % 16) * 4), "=">>
    ELSE <<sextet(bytes[1] \div 4), sextet((bytes[1] % 4) * 16 + bytes[2] \div 16),
           sextet((bytes[2] % 16) * 4 + bytes[3] \div 64), sextet(bytes[3] % 64)>>
         \o base64(SubSeq(bytes, 4, Len(bytes)))

\* `data:${uploadedFile.mimetype};base64,${base64}`
fileUrl(file) ==
    <<"d","a","t","a",":">> \o <<file.mimetype>> \o <<";","b","a","s","e","6","4",",">>
    \o base64(file.buffer)

NoFile == [mimetype |-> "", buffer |-> <<>>]
Files == { NoFile,
           [mimetype |-> "image/png", buffer |-> <<137, 80, 78, 71>>],
           [mimetype |-> "video/mp4", buffer |-> <<0, 0>>],
           [mimetype |-> "text/plain", buffer |-> <<104>>] }
Types == {Undefined, <<"photo">>, <<"video">>, <<"gif">>}
Captions == {Undefined, Hi}

\* const { caption = "", type = "photo" } = req.body
typeOrDefault(type) == IF type = Undefined THEN "photo" ELSE type[1]
captionOrDefault(caption) == IF caption = Undefined THEN <<>> ELSE caption

\* Lines 266-311: adminAuth, the file and type checks, the data URI, and
\* vipPhotosCollection.insertOne(media), whose identifier must be bound.
VipSend(r, key, file, type, caption) ==
    /\ free(r)
    /\ LET q == [Idle EXCEPT !.route = "vipSend", !.key = key, !.mimetype = file.mimetype,
                              !.type = type, !.caption = caption]
           media == [ _id |-> nextId, file_url |-> fileUrl(file),
                      caption |-> captionOrDefault(caption), type |-> typeOrDefault(type),
                      created_at |-> clock ]
       IN  IF unauthorized(key)
           THEN /\ setReq(r, fail(q, 401, "Unauthorized"))
                /\ UNCHANGED <<vipMedia, nextId>>
           ELSE IF file = NoFile
           THEN /\ setReq(r, fail(q, 400, "Media file is required"))
                /\ UNCHANGED <<vipMedia, nextId>>
           ELSE IF ~allowed(typeOrDefault(type), file.mimetype)
           THEN /\ setReq(r, fail(q, 400, "Invalid file type"))
                /\ UNCHANGED <<vipMedia, nextId>>
           ELSE IF "vipPhotosCollection" \notin declared
           THEN /\ setReq(r, fail(q, 500, "Failed to send VIP media"))
                /\ UNCHANGED <<vipMedia, nextId>>
           ELSE /\ vipMedia' = Append(vipMedia, media)
                /\ nextId' = nextId + 1
                /\ setReq(r, reply(op(q), 200, <<media>>))
    /\ UNCHANGED <<contacts, broadcasts, clock, rawOf>>

(**************************** GET /api/vip/photos ***************************)
\* Lines 315-326: vipPhotosCollection.find({}).sort({created_at: -1}).toArray()
VipList(r) ==
    /\ free(r)
    /\ LET q == [Idle EXCEPT !.route = "vipList"]
       IN  IF "vipPhotosCollection" \notin declared
           THEN setReq(r, fail(q, 500, "Failed to fetch VIP photos"))
           ELSE \E s \in sortedBy(vipMedia, -1) :
                    setReq(r, reply(op(q), 200, permute(vipMedia, s)))
    /\ UNCHANGED <<contacts, broadcasts, vipMedia, nextId, clock, rawOf>>

(**************************** specifications ********************************)
\* No response is waiting to be delivered.  A delivered response is read by nobody,
\* so delivering each one before the next step loses no behaviour of the store.
Quiet == \A r \in Reqs : req[r].pc # "done"

\* The handlers' steps, taken once the last response has been delivered.
QRegisterBegin(r, name, phone_number) == Quiet /\ RegisterBegin(r, name, phone_number)
QRegisterInsert(r) == Quiet /\ RegisterInsert(r)
QSelfUpdate(r, old_phone_number, new_name, new_phone_number) ==
    Quiet /\ SelfUpdate(r, old_phone_number, new_name, new_phone_number)
QSelfUpdateFind(r) == Quiet /\ SelfUpdateFind(r)
QAdminUpdate(r, key, id, name, phone_number) ==
    Quiet /\ AdminUpdate(r, key, id, name, phone_number)
QAdminUpdateFind(r) == Quiet /\ AdminUpdateFind(r)
QAdminDelete(r, key, id) == Quiet /\ AdminDelete(r, key, id)
QAdminList(r, key) == Quiet /\ AdminList(r, key)
QDownload(r) == Quiet /\ Download(r)
QPostBegin(r, key, message) == Quiet /\ PostBegin(r, key, message)
QPostInsert(r) == Quiet /\ PostInsert(r)
QVipSend(r, key, file, type, caption) == Quiet /\ VipSend(r, key, file, type, caption)

\* The contact registry and the admin routes are explored with up to two handlers
\* in flight at a time.
Handlers == {1, 2}

\* The contact registry: registration, both updates, deletion and the export.
NextContacts ==
    \/ \E r \in Reqs : Close(r)
    \/ \E r \in Handlers, name \in Names, phone \in RawPhones : QRegisterBegin(r, name, phone)
    \/ \E r \in Handlers : QRegisterInsert(r)
    \/ \E r \in Handlers, old \in OldPhones, name \in NewNames, phone \in NewPhones :
           QSelfUpdate(r, old, name, phone)
    \/ \E r \in Handlers : QSelfUpdateFind(r)
    \/ \E r \in Handlers, id \in Ids, name \in NewNames, phone \in NewPhones :
           QAdminUpdate(r, ADMIN_KEY, id, name, phone)
    \/ \E r \in Handlers : QAdminUpdateFind(r)
    \/ \E r \in Handlers, id \in Ids : QAdminDelete(r, ADMIN_KEY, id)
    \/ \E r \in Handlers : QDownload(r)

SpecContacts == Init /\ [][NextContacts]_vars

\* Registrations alone, racing on an empty store; responses stay in their slots.
RegisterNames == {Undefined, <<>>, Amy, Bob}
RegisterPhones == {Undefined, <<>>, PhoneFormatted, PhoneDigits, PhoneLocal, PhoneBlockedFormatted,
                   PhoneBlockedSpaced, PhoneShort, PhoneLong}

NextRegister ==
    \/ \E r \in Reqs, name \in RegisterNames, phone \in RegisterPhones :
           RegisterBegin(r, name, phone)
    \/ \E r \in Reqs : RegisterInsert(r)

SpecRegister == Init /\ [][NextRegister]_vars

\* The broadcast log.
NextBroadcast ==
    \/ Tick
    \/ \E r \in Reqs : Close(r)
    \/ \E r \in Reqs, key \in Keys, message \in Messages : PostBegin(r, key, message)
    \/ \E r \in Reqs : PostInsert(r)
    \/ \E r \in Reqs : Latest(r)

SpecBroadcast == Init /\ [][NextBroadcast]_vars

\* The VIP media routes.
NextVip ==
    \/ Tick
    \/ \E r \in Reqs : Close(r)
    \/ \E r \in Reqs, key \in Keys, file \in Files, type \in Types, caption \in Captions :
           VipSend(r, key, file, type, caption)
    \/ \E r \in Reqs : VipList(r)

SpecVip == Init /\ [][NextVip]_vars

\* Every route behind adminAuth, with any key, over a store that registrations fill.
NextAdmin ==
    \/ \E r \in Reqs : Close(r)
    \/ \E r \in Handlers, phone \in {PhoneFormatted, PhoneLocal} : QRegisterBegin(r, Amy, phone)
    \/ \E r \in Handlers : QRegisterInsert(r)
    \/ \E r \in Handlers, key \in Keys, message \in {Undefined, Hi} : QPostBegin(r, key, message)
    \/ \E r \in Handlers : QPostInsert(r)
    \/ \E r \in Handlers, key \in Keys : QAdminList(r, key)
    \/ \E r \in Handlers, key \in Keys, id \in Ids, phone \in {Undefined, PhoneLocal} :
           QAdminUpdate(r, key, id, Bob, phone)
    \/ \E r \in Handlers : QAdminUpdateFind(r)
    \/ \E r \in Handlers, key \in Keys, id \in Ids : QAdminDelete(r, key, id)
    \/ \E r \in Handlers, key \in Keys, file \in Files : QVipSend(r, key, file, Undefined, Hi)

SpecAdmin == Init /\ [][NextAdmin]_vars

(******************************* claims *************************************)
IsDigit(ch) == ch \in Digit
DigitsOf(raw) == SelectSeq(raw, IsDigit)
Given(x) == x # Undefined /\ x # <<>>

\* The step is request r's first one: its handler starts (and may already respond).
Begins(r, route) == req[r].pc = "idle" /\ req'[r].route = route

UniquePhones ==
    \A i, j \in Indexes(contacts) :
        contacts[i].phone_number = contacts[j].phone_number => i = j

\* C1: in every reachable state no two stored contacts have the same phone_number,
\* and a step in which a request is answered 409 (duplicate phone) leaves the
\* contacts as they were.
C1_UniquePhoneNumber ==
    /\ []UniquePhones
    /\ [][\A r \in Reqs :
              (req[r].pc # "done" /\ req'[r].pc = "done" /\ req'[r].status = 409)
                  => contacts' = contacts]_vars

\* An update was refused for a duplicate phone while two contacts are stored.
C1_Witness ==
    \E r \in Reqs :
        /\ req[r].route \in {"selfUpdate", "adminUpdate"}
        /\ req[r].status = 409
        /\ Len(contacts) >= 2

RegistersOf(p) ==
    { r \in Reqs : req[r].route = "register" /\ DigitsOf(req[r].phone_number) = p }

\* C2: when exactly two Register requests carry phones that normalize to the same
\* digit string, valid and not deny-listed, and both have been answered, one was
\* answered 201 and the other 409, and the store holds that phone once.
C2_RacingRegistersOneWins ==
    \A r1, r2 \in Reqs :
        LET p == DigitsOf(req[r1].phone_number)
        IN  ( /\ r1 # r2
              /\ RegistersOf(p) = {r1, r2}
              /\ Given(req[r1].name) /\ Given(req[r2].name)
              /\ Len(p) >= 10 /\ Len(p) <= 15 /\ p \notin blockedNumbers
              /\ req[r1].pc = "done" /\ req[r2].pc = "done" )
            => /\ {req[r1].status, req[r2].status} = {201, 409}
               /\ Cardinality({i \in Indexes(contacts) : contacts[i].phone_number = p}) = 1

\* Two registrations of the same number, written differently, have both been answered.
C2_Witness ==
    \E r1, r2 \in Reqs :
        /\ req[r1].route = "register" /\ req[r1].phone_number = PhoneFormatted
        /\ req[r2].route = "register" /\ req[r2].phone_number = PhoneDigits
        /\ req[r1].status = 409 /\ req[r2].status = 201

AdminRoutes == {"broadcast", "adminList", "adminUpdate", "adminDelete", "vipSend"}

\* C3: a request to an admin route whose x-admin-key is absent, empty or different
\* from the secret is answered 401 at once, having issued no store operation, and
\* its step changes none of the three collections.
C3_UnauthorizedTouchesNothing ==
    /\ [](\A r \in Reqs :
            (req[r].route \in AdminRoutes /\ req[r].key # ADMIN_KEY)
                => req[r].pc = "done" /\ req[r].status = 401 /\ req[r].ops = 0)
    /\ [][\A r \in Reqs :
              (req[r].pc = "idle" /\ req'[r].route \in AdminRoutes /\ req'[r].key # ADMIN_KEY)
                  => UNCHANGED <<contacts, broadcasts, vipMedia>>]_vars

\* A delete of an existing contact, sent with an empty key, was answered 401.
C3_Witness ==
    \E r \in Reqs :
        /\ req[r].route = "adminDelete" /\ req[r].key = <<>> /\ req[r].status = 401
        /\ \E i \in Indexes(contacts) : contacts[i]._id = req[r].id

\* C4: a Register request with a name and a phone whose digits are in the
\* deny-list is answered 403 at once, whatever the name, without a store
\* operation, and its step leaves the contacts as they were.
C4_BlockedNumberForbidden ==
    /\ [](\A r \in Reqs :
            ( /\ req[r].route = "register"
              /\ Given(req[r].name)
              /\ DigitsOf(req[r].phone_number)
                   \in { <<"2","5","4","7","1","3","3","8","0","8","4","8">>,
                         <<"2","5","4","7","1","2","3","4","5","6","7","8">> } )
                => req[r].pc = "done" /\ req[r].status = 403 /\ req[r].ops = 0)
    /\ [][\A r \in Reqs :
              (Begins(r, "register") /\ req'[r].status = 403) => contacts' = contacts]_vars

\* Both deny-listed numbers were refused, under different names.
C4_Witness ==
    \E r1, r2 \in Reqs :
        /\ req[r1].phone_number = PhoneBlockedFormatted /\ req[r1].name = Amy
        /\ req[r2].phone_number = PhoneBlockedSpaced /\ req[r2].name = Bob
        /\ req[r1].status = 403 /\ req[r2].status = 403

\* The vCard block the specification gives for a contact, line by line.
NL == <<"\n">>
ExpectedBlock(c) ==
    <<"B","E","G","I","N",":","V","C","A","R","D">> \o NL
    \o <<"V","E","R","S","I","O","N",":","3",".","0">> \o NL
    \o <<"F","N",":">> \o c.name \o Suffix \o NL
    \o <<"N",":">> \o c.name \o Suffix \o <<";",";",";",";">> \o NL
    \o <<"T","E","L",";","T","Y","P","E","=","C","E","L","L",":">> \o c.phone_number \o NL
    \o <<"E","N","D",":","V","C","A","R","D">> \o NL
    \o NL

\* The stored contact created k-th among those now stored (ids grow with creation).
CreatedKth(k) ==
    CHOOSE c \in {contacts[i] : i \in Indexes(contacts)} :
        Cardinality({i \in Indexes(contacts) : contacts[i]._id < c._id}) = k - 1

RECURSIVE ExpectedBlocks(_)
ExpectedBlocks(k) ==
    IF k = 0 THEN <<>> ELSE ExpectedBlocks(k - 1) \o ExpectedBlock(CreatedKth(k))

\* C5: Export over no contacts is answered 404; over a non-empty set it is answered
\* with exactly the blocks of the stored contacts, one each, in creation order.
C5_ExportOneBlockPerContact ==
    [][\A r \in Reqs :
          Begins(r, "download")
              => IF Len(contacts) = 0
                 THEN req'[r].status = 404 /\ req'[r].text = <<>>
                 ELSE /\ req'[r].status = 200
                      /\ req'[r].text = ExpectedBlocks(Len(contacts))]_vars

\* An export of two contacts, after one was renamed and an earlier one deleted.
C5_Witness ==
    \E r \in Reqs :
        /\ req[r].route = "download" /\ req[r].status = 200
        /\ Len(req[r].found) = 2
        /\ req[r].found[1]._id > 1
        /\ \E i \in 1..2 : req[r].found[i].name = Bob

\* C6: a SelfUpdate with an old phone and only a new name changes the name of the
\* contact stored under the old phone and nothing else; a SelfUpdate with an old
\* phone and a new phone whose digit count is outside 10..15 is answered 400
\* (invalid phone) without a store operation and changes no contact, whatever the
\* new name.
C6_SelfUpdateFrame ==
    [][\A r \in Reqs :
          Begins(r, "selfUpdate") /\ Given(req'[r].old_phone_number)
              => /\ (Given(req'[r].name) /\ ~Given(req'[r].phone_number))
                      => /\ Len(contacts') = Len(contacts)
                         /\ \A i \in Indexes(contacts) :
                               contacts'[i] =
                                   IF contacts[i].phone_number = req'[r].old_phone_number
                                   THEN [contacts[i] EXCEPT !.name = req'[r].name]
                                   ELSE contacts[i]
                 /\ ( /\ Given(req'[r].phone_number)
                      /\ LET n == Len(DigitsOf(req'[r].phone_number)) IN n < 10 \/ n > 15 )
                      => /\ req'[r].status = 400
                         /\ req'[r].error = "Invalid phone number"
                         /\ req'[r].ops = 0
                         /\ contacts' = contacts]_vars

\* One SelfUpdate has renamed one of two contacts and waits to read it back, while
\* another, with a short new phone and a new name, was answered 400.
C6_Witness ==
    \E r1, r2 \in Reqs :
        /\ req[r1].route = "selfUpdate" /\ req[r1].pc = "find"
        /\ req[r1].name = Bob /\ req[r1].phone_number = Undefined
        /\ Len(contacts) = 2
        /\ \E i \in Indexes(contacts) :
              contacts[i]._id = req[r1].matched /\ contacts[i].name = Bob
        /\ req[r2].route = "selfUpdate" /\ req[r2].status = 400
        /\ req[r2].phone_number = PhoneShort /\ req[r2].name = Bob

\* C7: a SelfUpdate that matched a contact and is answered 200 returns that same
\* contact, never null and never another one.
C7_SelfUpdateReturnsItsContact ==
    \A r \in Reqs :
        (req[r].route = "selfUpdate" /\ req[r].pc = "done" /\ req[r].status = 200)
            => /\ Len(req[r].found) = 1
               /\ req[r].found[1]._id = req[r].matched

\* C8: every stored phone_number is all digits, 10 to 15 of them, and is the raw
\* input that set it with every non-digit removed.
C8_StoredPhoneNormalized ==
    \A i \in Indexes(contacts) :
        LET p == contacts[i].phone_number
        IN  /\ \A k \in 1..Len(p) : p[k] \in Digit
            /\ Len(p) >= 10 /\ Len(p) <= 15
            /\ contacts[i]._id \in DOMAIN rawOf
            /\ p = DigitsOf(rawOf[contacts[i]._id])

\* The specification's example is stored, beside a contact whose phone an update set.
C8_Witness ==
    /\ \E i \in Indexes(contacts) :
          /\ rawOf[contacts[i]._id] = PhoneFormatted
          /\ contacts[i].phone_number = PhoneDigits
    /\ \E i \in Indexes(contacts), r \in Reqs :
          /\ req[r].route \in {"selfUpdate", "adminUpdate"} /\ req[r].pc = "find"
          /\ req[r].matched = contacts[i]._id
          /\ req[r].phone_number = PhoneBlockedFormatted
          /\ rawOf[contacts[i]._id] = PhoneBlockedFormatted

\* C9: an authorized VIP Submit with a file whose MIME type is allowed for its
\* type is answered 200 and stores one new record.
C9_VipSubmitStores ==
    [][\A r \in Reqs :
          ( /\ Begins(r, "vipSend")
            /\ req'[r].key = ADMIN_KEY
            /\ \/ req'[r].type \in {Undefined, <<"photo">>} /\ req'[r].mimetype = "image/png"
               \/ req'[r].type = <<"video">> /\ req'[r].mimetype = "video/mp4" )
              => /\ req'[r].status = 200
                 /\ Len(vipMedia') = Len(vipMedia) + 1]_vars

\* C10: Latest returns null exactly when no Post has succeeded, and otherwise a
\* broadcast with the message text of the last successful Post.
C10_LatestIsLastPost ==
    [][\A r \in Reqs :
          Begins(r, "latest")
              => IF Len(broadcasts) = 0
                 THEN req'[r].found = <<>>
                 ELSE /\ Len(req'[r].found) = 1
                      /\ req'[r].found[1].message = broadcasts[Len(broadcasts)].message]_vars

\* C11: in every reachable state, after any sequence of Register, SelfUpdate and
\* AdminUpdate requests, no stored contact has a phone_number that is in the
\* deny-list.
C11_NoStoredDenyListed ==
    \A i \in Indexes(contacts) :
        /\ contacts[i].phone_number # <<"2","5","4","7","1","3","3","8","0","8","4","8">>
        /\ contacts[i].phone_number # <<"2","5","4","7","1","2","3","4","5","6","7","8">>

====
